---- MODULE Spec2Model ----
(***************************************************************************)
(* jd-sql-spec-runner (tools/jd-sql-spec-runner/src/main.rs): one run of   *)
(* the runner, from Cli::parse() to process::exit().  The sequential steps *)
(* of main/run/run_postgres are the actions; the file system, the          *)
(* configuration and the database answer nondeterministically.  Texts are  *)
(* sequences of one-character strings.                                     *)
(***************************************************************************)
EXTENDS Integers, Sequences, FiniteSets, TLC

\* ------------------------------------------------------------ bounds
\* width of the scaled machine integers (i64/u64 have IntBits = 64)
IntBits == 3
\* nesting depth of the JSON containers a result column may hold
MaxDepth == 2
\* length of the strings a result column may hold
MaxLen == 2
\* rows of a result set, columns of a row, trailing command-line words
MaxRows == 2
MaxCols == 2
MaxExtra == 2

RECURSIVE Pow2(_)
Pow2(n) == IF n = 0 THEN 1 ELSE 2 * Pow2(n - 1)

\* i64::MAX, i64::MIN and u64::MAX at the scaled width
I64Max == Pow2(IntBits - 1) - 1
I64Min == 0 - Pow2(IntBits - 1)
U64Max == Pow2(IntBits) - 1

\* ------------------------------------------------------------ text
\* char::is_whitespace (Unicode White_Space), as str::trim uses it
IsWhitespace(c) == c \in {" ", "\n", "\t", "\r", "\f"}

\* the four characters JSON allows between tokens
IsJsonWs(c) == c \in {" ", "\n", "\t", "\r"}

RECURSIVE TrimStart(_)
TrimStart(s) ==
  IF s # <<>> /\ IsWhitespace(Head(s)) THEN TrimStart(Tail(s)) ELSE s

RECURSIVE TrimEnd(_)
TrimEnd(s) ==
  IF s # <<>> /\ IsWhitespace(s[Len(s)])
  THEN TrimEnd(SubSeq(s, 1, Len(s) - 1))
  ELSE s

\* str::trim
trim(s) == TrimEnd(TrimStart(s))

\* str::is_empty, Vec::is_empty, Map::is_empty
is_empty(s) == Len(s) = 0

RECURSIVE SeqsUpTo(_, _)
SeqsUpTo(S, n) ==
  IF n = 0 THEN {<<>>}
  ELSE LET shorter == SeqsUpTo(S, n - 1)
       IN  shorter \cup {Append(s, x) : s \in shorter, x \in S}

\* ------------------------------------------------------------ JSON values
\* serde_json::Value; Number is serde_json's PosInt(u64) | NegInt(i64) | Float(f64).
\* A Float is the decimal mant / 10^frac.
JNull == [t |-> "Null"]
JBool(b) == [t |-> "Bool", b |-> b]
JPosInt(v) == [t |-> "Number", n |-> [kind |-> "PosInt", v |-> v]]
JNegInt(v) == [t |-> "Number", n |-> [kind |-> "NegInt", v |-> v]]
JFloat(mant, frac) ==
  [t |-> "Number", n |-> [kind |-> "Float", mant |-> mant, frac |-> frac]]
JString(s) == [t |-> "String", s |-> s]
JArray(a) == [t |-> "Array", a |-> a]
JObject(m) == [t |-> "Object", m |-> m]
Member(k, v) == [k |-> k, v |-> v]

\* Number::as_i64
as_i64(n) ==
  CASE n.kind = "PosInt" ->
         IF n.v <= I64Max THEN [some |-> TRUE, v |-> n.v] ELSE [some |-> FALSE]
    [] n.kind = "NegInt" -> [some |-> TRUE, v |-> n.v]
    [] n.kind = "Float" -> [some |-> FALSE]

\* Option::unwrap_or
unwrap_or(o, d) == IF o.some THEN o.v ELSE d

\* json_diff_present looking into containers: one holding only absent members is absent
RECURSIVE json_diff_present_deep(_)
json_diff_present_deep(v) ==
  CASE v.t = "Null" -> FALSE
    [] v.t = "Bool" -> v.b
    [] v.t = "Number" -> unwrap_or(as_i64(v.n), 0) # 0
    [] v.t = "String" -> ~is_empty(v.s)
    [] v.t = "Array" -> \E i \in 1..Len(v.a) : json_diff_present_deep(v.a[i])
    [] v.t = "Object" -> \E i \in 1..Len(v.m) : json_diff_present_deep(v.m[i].v)

\* json_diff_present: only the outermost value is inspected
json_diff_present(v) ==
  CASE v.t = "Null" -> FALSE
    [] v.t = "Bool" -> v.b
    [] v.t = "Number" -> unwrap_or(as_i64(v.n), 0) # 0
    [] v.t = "String" -> ~is_empty(v.s)
    [] v.t = "Array" -> ~is_empty(v.a)
    [] v.t = "Object" -> ~is_empty(v.m)

\* ------------------------------------------------------------ serde_json::to_string
Digits == <<"0", "1", "2", "3", "4", "5", "6", "7", "8", "9">>
DigitChar(d) == Digits[d + 1]
IsDigit(c) == \E i \in 1..10 : Digits[i] = c
DigitVal(c) == (CHOOSE i \in 1..10 : Digits[i] = c) - 1

RECURSIVE Pow10(_)
Pow10(n) == IF n = 0 THEN 1 ELSE 10 * Pow10(n - 1)

RECURSIVE NatToChars(_)
NatToChars(n) ==
  IF n < 10 THEN <<DigitChar(n)>>
  ELSE Append(NatToChars(n \div 10), DigitChar(n % 10))

\* the low k decimal digits of n, zero padded
RECURSIVE FracChars(_, _)
FracChars(n, k) ==
  IF k = 0 THEN <<>>
  ELSE Append(FracChars(n \div 10, k - 1), DigitChar(n % 10))

Abs(i) == IF i < 0 THEN 0 - i ELSE i

NumberToChars(n) ==
  CASE n.kind = "PosInt" -> NatToChars(n.v)
    [] n.kind = "NegInt" -> <<"-">> \o NatToChars(0 - n.v)
    [] n.kind = "Float" ->
         (IF n.mant < 0 THEN <<"-">> ELSE <<>>)
           \o NatToChars(Abs(n.mant) \div Pow10(n.frac))
           \o <<".">>
           \o FracChars(Abs(n.mant) % Pow10(n.frac), n.frac)

\* a character inside a JSON string literal
EscapeChar(c) ==
  CASE c = "\"" -> <<"\\", "\"">>
    [] c = "\\" -> <<"\\", "\\">>
    [] c = "\n" -> <<"\\", "n">>
    [] c = "\t" -> <<"\\", "t">>
    [] c = "\r" -> <<"\\", "r">>
    [] c = "\f" -> <<"\\", "f">>
    [] OTHER -> <<c>>

RECURSIVE EscapeChars(_)
EscapeChars(s) ==
  IF s = <<>> THEN <<>> ELSE EscapeChar(Head(s)) \o EscapeChars(Tail(s))

StringToChars(s) == <<"\"">> \o EscapeChars(s) \o <<"\"">>

\* compact serialization: no whitespace between tokens
RECURSIVE to_string(_)
RECURSIVE ElementsToChars(_)
RECURSIVE MembersToChars(_)
ElementsToChars(a) ==
  IF a = <<>> THEN <<>>
  ELSE to_string(Head(a))
         \o (IF Tail(a) = <<>> THEN <<>> ELSE <<",">> \o ElementsToChars(Tail(a)))
MembersToChars(m) ==
  IF m = <<>> THEN <<>>
  ELSE StringToChars(Head(m).k) \o <<":">> \o to_string(Head(m).v)
         \o (IF Tail(m) = <<>> THEN <<>> ELSE <<",">> \o MembersToChars(Tail(m)))
to_string(v) ==
  CASE v.t = "Null" -> <<"n", "u", "l", "l">>
    [] v.t = "Bool" ->
         IF v.b THEN <<"t", "r", "u", "e">> ELSE <<"f", "a", "l", "s", "e">>
    [] v.t = "Number" -> NumberToChars(v.n)
    [] v.t = "String" -> StringToChars(v.s)
    [] v.t = "Array" -> <<"[">> \o ElementsToChars(v.a) \o <<"]">>
    [] v.t = "Object" -> <<"{">> \o MembersToChars(v.m) \o <<"}">>

\* ------------------------------------------------------------ serde_json::from_str
\* A parse step answers [ok, v, rest].  The exponent form of numbers and \u
\* escapes are not modelled; no text drawn below uses them.
Fail == [ok |-> FALSE]
Done(v, rest) == [ok |-> TRUE, v |-> v, rest |-> rest]

RECURSIVE SkipWs(_)
SkipWs(s) == IF s # <<>> /\ IsJsonWs(Head(s)) THEN SkipWs(Tail(s)) ELSE s

StartsWith(s, p) == Len(s) >= Len(p) /\ SubSeq(s, 1, Len(p)) = p
Drop(s, n) == SubSeq(s, n + 1, Len(s))

\* the run of digits at the head of s, as [n, len, rest]
RECURSIVE ParseDigits(_, _, _)
ParseDigits(s, n, len) ==
  IF s # <<>> /\ IsDigit(Head(s))
  THEN ParseDigits(Tail(s), 10 * n + DigitVal(Head(s)), len + 1)
  ELSE [n |-> n, len |-> len, rest |-> s]

\* a float keeps no trailing zero beyond its first fraction digit
RECURSIVE NormFloat(_, _)
NormFloat(mant, frac) ==
  IF frac > 1 /\ mant % 10 = 0 THEN NormFloat(mant \div 10, frac - 1)
  ELSE JFloat(mant, frac)

\* an integer literal: u64 when it fits, i64 when negative and it fits, else f64
IntegerValue(neg, n) ==
  IF ~neg
  THEN IF n <= U64Max THEN JPosInt(n) ELSE JFloat(n * 10, 1)
  ELSE IF n # 0 /\ 0 - n >= I64Min THEN JNegInt(0 - n) ELSE JFloat(0 - n * 10, 1)

ParseNumber(s) ==
  LET neg == s # <<>> /\ Head(s) = "-"
      s1 == IF neg THEN Tail(s) ELSE s
      int == ParseDigits(s1, 0, 0)
      leadingZero == int.len > 1 /\ Head(s1) = "0"
      hasFrac == int.rest # <<>> /\ Head(int.rest) = "."
      fr == ParseDigits(Tail(int.rest), 0, 0)
      mant == int.n * Pow10(fr.len) + fr.n
  IN  IF int.len = 0 \/ leadingZero THEN Fail
      ELSE IF ~hasFrac THEN Done(IntegerValue(neg, int.n), int.rest)
      ELSE IF fr.len = 0 THEN Fail
      ELSE Done(NormFloat(IF neg THEN 0 - mant ELSE mant, fr.len), fr.rest)

Unescape(c) ==
  CASE c = "n" -> "\n"
    [] c = "t" -> "\t"
    [] c = "r" -> "\r"
    [] c = "f" -> "\f"
    [] OTHER -> c

\* the characters up to the closing quote; s starts after the opening quote
RECURSIVE ParseStringBody(_, _)
ParseStringBody(s, acc) ==
  IF s = <<>> THEN Fail
  ELSE IF Head(s) = "\"" THEN Done(acc, Tail(s))
  ELSE IF Head(s) \in {"\n", "\t", "\r", "\f"} THEN Fail
  ELSE IF Head(s) = "\\"
       THEN IF Len(s) >= 2 /\ s[2] \in {"\"", "\\", "/", "n", "t", "r", "f"}
            THEN ParseStringBody(Drop(s, 2), Append(acc, Unescape(s[2])))
            ELSE Fail
  ELSE ParseStringBody(Tail(s), Append(acc, Head(s)))

\* Map::insert: a repeated key keeps its place and takes the new value
MapInsert(m, k, v) ==
  IF \E i \in 1..Len(m) : m[i].k = k
  THEN [i \in 1..Len(m) |-> IF m[i].k = k THEN Member(k, v) ELSE m[i]]
  ELSE Append(m, Member(k, v))

RECURSIVE ParseValue(_)
RECURSIVE ParseElements(_, _)
RECURSIVE ParseMembers(_, _)

\* s starts at an element; acc holds the elements read so far
ParseElements(s, acc) ==
  LET e == ParseValue(s)
      r == IF e.ok THEN SkipWs(e.rest) ELSE <<>>
  IN  IF ~e.ok \/ r = <<>> THEN Fail
      ELSE IF Head(r) = "," THEN ParseElements(Tail(r), Append(acc, e.v))
      ELSE IF Head(r) = "]" THEN Done(JArray(Append(acc, e.v)), Tail(r))
      ELSE Fail

\* s starts at a key; acc holds the members read so far
ParseMembers(s, acc) ==
  LET s0 == SkipWs(s)
      k == IF s0 # <<>> /\ Head(s0) = "\"" THEN ParseStringBody(Tail(s0), <<>>) ELSE Fail
      c == IF k.ok THEN SkipWs(k.rest) ELSE <<>>
      e == IF c # <<>> /\ Head(c) = ":" THEN ParseValue(Tail(c)) ELSE Fail
      r == IF e.ok THEN SkipWs(e.rest) ELSE <<>>
  IN  IF ~e.ok \/ r = <<>> THEN Fail
      ELSE IF Head(r) = "," THEN ParseMembers(Tail(r), MapInsert(acc, k.v, e.v))
      ELSE IF Head(r) = "}" THEN Done(JObject(MapInsert(acc, k.v, e.v)), Tail(r))
      ELSE Fail

ParseValue(s) ==
  LET s0 == SkipWs(s)
  IN  IF s0 = <<>> THEN Fail
      ELSE IF StartsWith(s0, <<"n", "u", "l", "l">>) THEN Done(JNull, Drop(s0, 4))
      ELSE IF StartsWith(s0, <<"t", "r", "u", "e">>) THEN Done(JBool(TRUE), Drop(s0, 4))
      ELSE IF StartsWith(s0, <<"f", "a", "l", "s", "e">>) THEN Done(JBool(FALSE), Drop(s0, 5))
      ELSE IF Head(s0) = "\""
           THEN LET b == ParseStringBody(Tail(s0), <<>>)
                IN  IF b.ok THEN Done(JString(b.v), b.rest) ELSE Fail
      ELSE IF Head(s0) = "["
           THEN LET r == SkipWs(Tail(s0))
                IN  IF r # <<>> /\ Head(r) = "]" THEN Done(JArray(<<>>), Tail(r))
                    ELSE ParseElements(r, <<>>)
      ELSE IF Head(s0) = "{"
           THEN LET r == SkipWs(Tail(s0))
                IN  IF r # <<>> /\ Head(r) = "}" THEN Done(JObject(<<>>), Tail(r))
                    ELSE ParseMembers(r, <<>>)
      ELSE IF Head(s0) = "-" \/ IsDigit(Head(s0)) THEN ParseNumber(s0)
      ELSE Fail

\* one value, then nothing but JSON whitespace up to the end of the text
from_str(s) ==
  LET r == ParseValue(s)
  IN  IF r.ok /\ SkipWs(r.rest) = <<>> THEN [ok |-> TRUE, v |-> r.v] ELSE Fail

\* ------------------------------------------------------------ options and locals
\* Option<T>
None == [some |-> FALSE]
Some(v) == [some |-> TRUE, v |-> v]

\* a local variable before and after its let
Unset == [set |-> FALSE]
Set(v) == [set |-> TRUE, v |-> v]

\* ------------------------------------------------------------ command line
Paths == {"a.json", "b.json"}

\* struct Cli as clap fills it: file2 is the second positional, so it is present
\* only when file1 is; extra holds the words after "--"
Clis ==
  { [config |-> c, file1 |-> f1, file2 |-> f2, extra |-> e] :
      c \in BOOLEAN,
      f1 \in {None} \cup {Some(q) : q \in Paths},
      f2 \in {None} \cup {Some(q) : q \in Paths},
      e \in SeqsUpTo(Paths, MaxExtra) }

ClapClis == {c \in Clis : c.file2.some => c.file1.some}

\* the last two words of extra stand in for the missing positionals
parse_files_from_args(cli) ==
  LET len == Len(cli.extra)
      fill == (~cli.file1.some \/ ~cli.file2.some) /\ len >= 2
      a == IF ~cli.file1.some /\ fill THEN Some(cli.extra[len - 1]) ELSE cli.file1
      b == IF ~cli.file2.some /\ fill THEN Some(cli.extra[len]) ELSE cli.file2
  IN  IF ~a.some THEN [ok |-> FALSE, err |-> "missing first input file argument"]
      ELSE IF ~b.some THEN [ok |-> FALSE, err |-> "missing second input file argument"]
      ELSE [ok |-> TRUE, a |-> a.v, b |-> b.v]

\* ------------------------------------------------------------ configuration
\* what resolve_config_path finds: current_dir() answers, jd-sql-spec.yaml is a
\* file in the working directory, or is one next to the executable
ConfigEnvs == [cwd_ok : BOOLEAN, cwd_cfg : BOOLEAN, exe_cfg : BOOLEAN]

resolve_config_path(opt, env) ==
  IF opt THEN [ok |-> TRUE, path |-> "explicit"]
  ELSE IF ~env.cwd_ok
       THEN [ok |-> FALSE, err |-> "cannot determine current working directory"]
  ELSE IF env.cwd_cfg THEN [ok |-> TRUE, path |-> "cwd"]
  ELSE IF env.exe_cfg THEN [ok |-> TRUE, path |-> "exe"]
  ELSE [ok |-> FALSE, err |-> "config file not found"]

Engines == {"postgres", "pg", "mysql", "sqlite"}

\* IsPostgres with a catch-all arm: every engine runs as postgres
IsPostgres_any(engine) == engine = engine

\* the engines run() dispatches on
IsPostgres(engine) == engine \in {"postgres", "pg"}

\* ------------------------------------------------------------ input files
FileTexts ==
  { <<>>,
    <<" ", "\f", "\n">>,
    <<"n", "u", "l", "l">>,
    <<" ", "{", "\"", "a", "\"", ":", "1", "}", "\n">>,
    <<"{">>,
    <<"\f", "1">> }

\* fs::read_to_string: an error, or the text
FileReads == {[ok |-> FALSE]} \cup {[ok |-> TRUE, text |-> t] : t \in FileTexts}

\* the Option<JsonValue> parameter built from a file's text
LoadParam(text) ==
  IF is_empty(trim(text)) THEN [ok |-> TRUE, v |-> None]
  ELSE LET r == from_str(text)
       IN  IF r.ok THEN [ok |-> TRUE, v |-> Some(r.v)] ELSE Fail

\* ------------------------------------------------------------ result sets
\* the numbers a JSON result may hold: every u64, every negative i64, some floats
JsonNumbers ==
  {JPosInt(v) : v \in 0..U64Max}
    \cup {JNegInt(v) : v \in I64Min..(0 - 1)}
    \cup {JFloat(m, 1) : m \in {0 - 5, 0, 5, 10, 15}}

JsonStrings == {JString(x) : x \in SeqsUpTo({"a", " "}, MaxLen)}

\* the members a container may hold besides containers
JsonLeaves == {JNull, JBool(FALSE), JPosInt(0), JString(<<>>), JPosInt(1)}

\* arrays of at most one element and objects of at most one member, nested to depth d
RECURSIVE JsonContainers(_)
JsonContainers(d) ==
  IF d = 0 THEN {}
  ELSE LET inner == JsonLeaves \cup JsonContainers(d - 1)
       IN  {JArray(<<>>), JObject(<<>>)}
             \cup {JArray(<<x>>) : x \in inner}
             \cup {JObject(<<Member(<<"a">>, x)>>) : x \in inner}

JsonValues ==
  {JNull, JBool(TRUE), JBool(FALSE)}
    \cup JsonNumbers \cup JsonStrings \cup JsonContainers(MaxDepth)

TextValues == SeqsUpTo({" ", "\n", "a"}, MaxLen)

\* a column of a row: its type and its value, or SQL NULL
TextCell(x) == [ty |-> "text", null |-> FALSE, s |-> x]
JsonbCell(j) == [ty |-> "jsonb", null |-> FALSE, j |-> j]
Int4Cell(i) == [ty |-> "int4", null |-> FALSE, i |-> i]
NullCell(ty) == [ty |-> ty, null |-> TRUE]

Cells ==
  {TextCell(x) : x \in TextValues}
    \cup {JsonbCell(j) : j \in JsonValues}
    \cup {Int4Cell(0)}
    \cup {NullCell(ty) : ty \in {"text", "jsonb", "int4"}}

\* a first row: no column at all, or a first column and int4 columns after it
FirstRows ==
  {<<>>} \cup {<<c>> \o [i \in 1..n |-> Int4Cell(0)] : c \in Cells, n \in 0..(MaxCols - 1)}

\* another value of the same column
OtherCell(c) ==
  CASE c.ty = "text" -> TextCell(<<"a", "a">>)
    [] c.ty = "jsonb" -> JsonbCell(JBool(TRUE))
    [] c.ty = "int4" -> NullCell("int4")

\* a later row of the same columns
OtherRow(r) == [i \in 1..Len(r) |-> OtherCell(r[i])]

\* the result sets a query may answer with: no row, or a first row and later rows
RowSets ==
  {<<>>} \cup {<<r>> \o [i \in 1..n |-> OtherRow(r)] : r \in FirstRows, n \in 0..(MaxRows - 1)}

\* <String as FromSql>::accepts and <serde_json::Value as FromSql>::accepts
StringAccepts(ty) == ty \in {"text"}
JsonAccepts(ty) == ty \in {"jsonb"}

\* Row::try_get::<_, String>(idx) and Row::try_get::<_, JsonValue>(idx)
try_get_String(row, idx) ==
  IF idx + 1 > Len(row) THEN Fail
  ELSE LET c == row[idx + 1]
       IN  IF StringAccepts(c.ty) /\ ~c.null THEN [ok |-> TRUE, v |-> c.s] ELSE Fail
try_get_JsonValue(row, idx) ==
  IF idx + 1 > Len(row) THEN Fail
  ELSE LET c == row[idx + 1]
       IN  IF JsonAccepts(c.ty) /\ ~c.null THEN [ok |-> TRUE, v |-> c.j] ELSE Fail

\* enum QueryResult
QNone == [kind |-> "None"]
QText(x) == [kind |-> "Text", s |-> x]
QJson(v) == [kind |-> "Json", v |-> v]

\* Classify reading the last row instead of the first
Classify_last_row(rows) ==
  IF is_empty(rows) THEN [ok |-> TRUE, v |-> QNone]
  ELSE LET t == try_get_String(rows[Len(rows)], 0)
           j == try_get_JsonValue(rows[Len(rows)], 0)
       IN  IF t.ok THEN [ok |-> TRUE, v |-> QText(t.v)]
           ELSE IF j.ok THEN [ok |-> TRUE, v |-> QJson(j.v)]
           ELSE [ok |-> FALSE,
                 err |-> "unsupported result type in first column; expected text or json"]

\* Classify without the rows.is_empty() test: each try_get fails on row 0
Classify_no_empty_test(rows) ==
  LET t == IF is_empty(rows) THEN Fail ELSE try_get_String(rows[1], 0)
      j == IF is_empty(rows) THEN Fail ELSE try_get_JsonValue(rows[1], 0)
  IN  IF t.ok THEN [ok |-> TRUE, v |-> QText(t.v)]
      ELSE IF j.ok THEN [ok |-> TRUE, v |-> QJson(j.v)]
      ELSE [ok |-> FALSE,
            err |-> "unsupported result type in first column; expected text or json"]

\* the tail of run_postgres: rows to QueryResult, or the unsupported-type error
Classify(rows) ==
  IF is_empty(rows) THEN [ok |-> TRUE, v |-> QNone]
  ELSE LET t == try_get_String(rows[1], 0)
           j == try_get_JsonValue(rows[1], 0)
       IN  IF t.ok THEN [ok |-> TRUE, v |-> QText(t.v)]
           ELSE IF j.ok THEN [ok |-> TRUE, v |-> QJson(j.v)]
           ELSE [ok |-> FALSE,
                 err |-> "unsupported result type in first column; expected text or json"]

\* MapResult printing the trimmed text
MapResult_trimmed(result) ==
  CASE result.kind = "None" -> [out |-> <<>>, code |-> 0]
    [] result.kind = "Text" ->
         [out |-> trim(result.s), code |-> IF ~is_empty(trim(result.s)) THEN 1 ELSE 0]
    [] result.kind = "Json" ->
         [out |-> to_string(result.v),
          code |-> IF json_diff_present(result.v) THEN 1 ELSE 0]

\* the match on result in run(): what is printed and the exit code
MapResult(result) ==
  CASE result.kind = "None" -> [out |-> <<>>, code |-> 0]
    [] result.kind = "Text" ->
         [out |-> result.s, code |-> IF ~is_empty(trim(result.s)) THEN 1 ELSE 0]
    [] result.kind = "Json" ->
         [out |-> to_string(result.v),
          code |-> IF json_diff_present(result.v) THEN 1 ELSE 0]

\* ------------------------------------------------------------ state
VARIABLES
  pc,          \* the statement of main/run/run_postgres about to run
  file1,       \* run(): file1, the path of input A
  file2,       \* run(): file2, the path of input B
  cfg,         \* run(): cfg
  fs,          \* what reading each path has answered so far
  a_text,      \* run_postgres(): a_text
  b_text,      \* run_postgres(): b_text
  a_param,     \* run_postgres(): a_param
  b_param,     \* run_postgres(): b_param
  client,      \* run_postgres(): client, "none" | "held" | "dropped"
  driver,      \* the spawned connection task, "none" | "running" | "failed" | "finished"
  rows,        \* run_postgres(): rows
  result,      \* run(): result
  exit_code,   \* run(): exit_code
  err,         \* the error that ended the run
  stdout,      \* the characters printed to standard output
  stderr,      \* the messages printed to standard error
  status,      \* the status handed to process::exit
  db           \* the requests the database has seen, in order

vars ==
  <<pc, file1, file2, cfg, fs, a_text, b_text, a_param, b_param,
    client, driver, rows, result, exit_code, err, stdout, stderr, status, db>>

\* what clap prints for --help
HelpText == <<"U", "s", "a", "g", "e">>

Init ==
  /\ pc = "parse_args"
  /\ file1 = Unset
  /\ file2 = Unset
  /\ cfg = Unset
  /\ fs = [q \in Paths |-> Unset]
  /\ a_text = Unset
  /\ b_text = Unset
  /\ a_param = Unset
  /\ b_param = Unset
  /\ client = "none"
  /\ driver = "none"
  /\ rows = Unset
  /\ result = Unset
  /\ exit_code = Unset
  /\ err = None
  /\ stdout = <<>>
  /\ stderr = <<>>
  /\ status = Unset
  /\ db = <<>>

\* the locals of run_postgres go out of scope; a held client is dropped with them
DropLocals ==
  /\ a_text' = Unset
  /\ b_text' = Unset
  /\ a_param' = Unset
  /\ b_param' = Unset
  /\ rows' = Unset
  /\ client' = IF client = "held" THEN "dropped" ELSE client

\* run() returns Err(e) to main through the ? operator
RunErr(e) ==
  /\ err' = Some(e)
  /\ pc' = "main"

\* PostgresErr leaving the run without dropping the client
PostgresErr_leak(e) ==
  /\ RunErr(e)
  /\ UNCHANGED <<a_text, b_text, a_param, b_param, rows, client>>

\* run_postgres() returns Err(e), and run() passes it on
PostgresErr(e) ==
  /\ RunErr(e)
  /\ DropLocals

\* ------------------------------------------------------------ run(): arguments and configuration
\* Cli::parse() on --help: clap prints the help and exits 0
CliHelp ==
  /\ pc = "parse_args"
  /\ stdout' = stdout \o HelpText
  /\ status' = Set(0)
  /\ pc' = "exited"
  /\ UNCHANGED <<file1, file2, cfg, fs, a_text, b_text, a_param, b_param,
                 client, driver, rows, result, exit_code, err, stderr, db>>

\* Cli::parse() on a malformed command line: clap reports it and exits 2
CliUsageError ==
  /\ pc = "parse_args"
  /\ err' = Some("clap usage error")
  /\ stderr' = Append(stderr, "clap usage error")
  /\ status' = Set(2)
  /\ pc' = "exited"
  /\ UNCHANGED <<file1, file2, cfg, fs, a_text, b_text, a_param, b_param,
                 client, driver, rows, result, exit_code, stdout, db>>

Configs == [engine : Engines, dsn : {"dsn"}, sql : {"sql"}]

\* Cli::parse() answers a Cli; then parse_files_from_args(&cli)?,
\* resolve_config_path(cli.config.as_ref())?, fs::read(&cfg_path)? and
\* serde_yaml::from_slice(&cfg_bytes)?
LoadArgsAndConfig ==
  /\ pc = "parse_args"
  /\ \E cli \in ClapClis, env \in ConfigEnvs, readOk \in BOOLEAN,
        parsed \in {None} \cup {Some(c) : c \in Configs} :
       LET f == parse_files_from_args(cli)
           r == resolve_config_path(cli.config, env)
       IN  IF ~f.ok THEN RunErr(f.err) /\ UNCHANGED <<file1, file2, cfg>>
           ELSE IF ~r.ok THEN RunErr(r.err) /\ UNCHANGED <<file1, file2, cfg>>
           ELSE IF ~readOk
                THEN RunErr("failed to read config file") /\ UNCHANGED <<file1, file2, cfg>>
           ELSE IF ~parsed.some
                THEN RunErr("failed to parse YAML config") /\ UNCHANGED <<file1, file2, cfg>>
           ELSE /\ file1' = Set(f.a)
                /\ file2' = Set(f.b)
                /\ cfg' = Set(parsed.v)
                /\ pc' = "match_engine"
                /\ UNCHANGED err
  /\ UNCHANGED <<fs, a_text, b_text, a_param, b_param, client, driver, rows,
                 result, exit_code, stdout, stderr, status, db>>

\* match cfg.engine.as_str()
MatchEngine ==
  /\ pc = "match_engine"
  /\ IF IsPostgres(cfg.v.engine)
     THEN pc' = "read_a" /\ UNCHANGED err
     ELSE RunErr("unsupported engine")
  /\ UNCHANGED <<file1, file2, cfg, fs, a_text, b_text, a_param, b_param,
                 client, driver, rows, result, exit_code, stdout, stderr, status, db>>

\* ------------------------------------------------------------ run_postgres()
\* StepAfter with each file parsed as soon as it is read
StepAfter_parse_early(step) ==
  CASE step = "read_a" -> "param_a"
    [] step = "param_a" -> "read_b"
    [] step = "read_b" -> "param_b"
    [] step = "param_b" -> "connect"
    [] step = "connect" -> "prepare"
    [] step = "prepare" -> "query"
    [] step = "query" -> "classify"

\* the statement of run_postgres that follows a statement that succeeded
StepAfter(step) ==
  CASE step = "read_a" -> "read_b"
    [] step = "read_b" -> "param_a"
    [] step = "param_a" -> "param_b"
    [] step = "param_b" -> "connect"
    [] step = "connect" -> "prepare"
    [] step = "prepare" -> "query"
    [] step = "query" -> "classify"

\* the answer of fs::read_to_string(q): the one q gave before, if it was read
ReadsOf(q) == IF fs[q].set THEN {fs[q].v} ELSE FileReads

\* let a_text = fs::read_to_string(file1)?
ReadA ==
  /\ pc = "read_a"
  /\ \E r \in ReadsOf(file1.v) :
       /\ fs' = [fs EXCEPT ![file1.v] = Set(r)]
       /\ IF r.ok
          THEN /\ a_text' = Set(r.text)
               /\ pc' = StepAfter("read_a")
               /\ UNCHANGED <<err, b_text, a_param, b_param, rows, client>>
          ELSE PostgresErr("failed to read input file A")
  /\ UNCHANGED <<file1, file2, cfg, driver, result, exit_code, stdout,
                 stderr, status, db>>

\* let b_text = fs::read_to_string(file2)?
ReadB ==
  /\ pc = "read_b"
  /\ \E r \in ReadsOf(file2.v) :
       /\ fs' = [fs EXCEPT ![file2.v] = Set(r)]
       /\ IF r.ok
          THEN /\ b_text' = Set(r.text)
               /\ pc' = StepAfter("read_b")
               /\ UNCHANGED <<err, a_text, a_param, b_param, rows, client>>
          ELSE PostgresErr("failed to read input file B")
  /\ UNCHANGED <<file1, file2, cfg, driver, result, exit_code, stdout,
                 stderr, status, db>>

\* let a_param = if a_text.trim().is_empty() { None } else { Some(from_str(&a_text)?) }
ParamA ==
  /\ pc = "param_a"
  /\ LET r == LoadParam(a_text.v)
     IN  IF r.ok
         THEN /\ a_param' = Set(r.v)
              /\ pc' = StepAfter("param_a")
              /\ UNCHANGED <<err, a_text, b_text, b_param, rows, client>>
         ELSE PostgresErr("invalid JSON in file A")
  /\ UNCHANGED <<file1, file2, cfg, fs, driver, result, exit_code, stdout,
                 stderr, status, db>>

\* let b_param = if b_text.trim().is_empty() { None } else { Some(from_str(&b_text)?) }
ParamB ==
  /\ pc = "param_b"
  /\ LET r == LoadParam(b_text.v)
     IN  IF r.ok
         THEN /\ b_param' = Set(r.v)
              /\ pc' = StepAfter("param_b")
              /\ UNCHANGED <<err, a_text, b_text, a_param, rows, client>>
         ELSE PostgresErr("invalid JSON in file B")
  /\ UNCHANGED <<file1, file2, cfg, fs, driver, result, exit_code, stdout,
                 stderr, status, db>>

\* tokio_postgres::connect(..).await?, then tokio::spawn of the connection
Connect ==
  /\ pc = "connect"
  /\ \E ok \in BOOLEAN :
       /\ db' = Append(db, [op |-> "connect", ok |-> ok])
       /\ IF ok
          THEN /\ client' = "held"
               /\ driver' = "running"
               /\ pc' = StepAfter("connect")
               /\ UNCHANGED <<err, a_text, b_text, a_param, b_param, rows>>
          ELSE /\ PostgresErr("failed to connect to postgres")
               /\ UNCHANGED driver
  /\ UNCHANGED <<file1, file2, cfg, fs, result, exit_code, stdout, stderr,
                 status>>

\* client.prepare(&cfg.sql).await?; it succeeds only while the connection is served
Prepare ==
  /\ pc = "prepare"
  /\ \E ok \in BOOLEAN :
       /\ ok => driver = "running"
       /\ db' = Append(db, [op |-> "prepare", ok |-> ok])
       /\ IF ok
          THEN /\ pc' = StepAfter("prepare")
               /\ UNCHANGED <<err, a_text, b_text, a_param, b_param, rows, client>>
          ELSE PostgresErr("prepare SQL failed")
  /\ UNCHANGED <<file1, file2, cfg, fs, driver, result, exit_code, stdout,
                 stderr, status>>

\* QueryParams with the two documents swapped
QueryParams_swapped == <<b_param.v, a_param.v>>

\* the parameters of client.query(&stmt, &[&a_param, &b_param])
QueryParams == <<a_param.v, b_param.v>>

\* client.query(..).await answers rows
QueryOk ==
  /\ pc = "query"
  /\ driver = "running"
  /\ \E rs \in RowSets :
       /\ db' = Append(db, [op |-> "execute", ok |-> TRUE, params |-> QueryParams,
                            rows |-> rs])
       /\ rows' = Set(rs)
       /\ pc' = StepAfter("query")
  /\ UNCHANGED <<file1, file2, cfg, fs, a_text, b_text, a_param, b_param,
                 client, driver, result, exit_code, err, stdout, stderr, status>>

\* client.query(..).await? fails
QueryFail ==
  /\ pc = "query"
  /\ db' = Append(db, [op |-> "execute", ok |-> FALSE, params |-> QueryParams])
  /\ PostgresErr("SQL execution failed")
  /\ UNCHANGED <<file1, file2, cfg, fs, driver, result, exit_code, stdout,
                 stderr, status>>

\* rows.is_empty(), the two try_get, and the return of run_postgres
ClassifyRows ==
  /\ pc = "classify"
  /\ LET r == Classify(rows.v)
     IN  IF r.ok
         THEN /\ result' = Set(r.v)
              /\ pc' = "map_result"
              /\ DropLocals
              /\ UNCHANGED err
         ELSE /\ PostgresErr(r.err)
              /\ UNCHANGED result
  /\ UNCHANGED <<file1, file2, cfg, fs, driver, exit_code, stdout, stderr,
                 status, db>>

\* the connection task ends with an error: eprintln!("postgres connection error: ..")
DriverError ==
  /\ driver = "running"
  /\ pc # "exited"
  /\ driver' = "failed"
  /\ stderr' = Append(stderr, "postgres connection error")
  /\ UNCHANGED <<pc, file1, file2, cfg, fs, a_text, b_text, a_param,
                 b_param, client, rows, result, exit_code, err, stdout, status, db>>

\* the connection task ends once the client is dropped
DriverFinish ==
  /\ driver = "running"
  /\ client = "dropped"
  /\ pc # "exited"
  /\ driver' = "finished"
  /\ UNCHANGED <<pc, file1, file2, cfg, fs, a_text, b_text, a_param,
                 b_param, client, rows, result, exit_code, err, stdout, stderr, status, db>>

\* ------------------------------------------------------------ run(): output, and main()
\* match result { .. } and Ok(exit_code)
PrintResult ==
  /\ pc = "map_result"
  /\ LET m == MapResult(result.v)
     IN  /\ stdout' = stdout \o m.out
         /\ exit_code' = Set(m.code)
  /\ pc' = "main"
  /\ UNCHANGED <<file1, file2, cfg, fs, a_text, b_text, a_param, b_param,
                 client, driver, rows, result, err, stderr, status, db>>

\* ExitStatus reporting an error as a difference
ExitStatus_error_as_diff(e, code) == IF e.some THEN 1 ELSE code.v

\* the status main() exits with for what run() returned
ExitStatus(e, code) == IF e.some THEN 2 ELSE code.v

\* match run().await { Ok(code) => exit(code), Err(err) => { eprintln!; exit(2) } }
MainExit ==
  /\ pc = "main"
  /\ stderr' = IF err.some THEN Append(stderr, err.v) ELSE stderr
  /\ status' = Set(ExitStatus(err, exit_code))
  /\ pc' = "exited"
  /\ UNCHANGED <<file1, file2, cfg, fs, a_text, b_text, a_param, b_param,
                 client, driver, rows, result, exit_code, err, stdout, db>>

\* the steps of the main task
MainNext ==
  \/ CliHelp
  \/ CliUsageError
  \/ LoadArgsAndConfig
  \/ MatchEngine
  \/ ReadA
  \/ ReadB
  \/ ParamA
  \/ ParamB
  \/ Connect
  \/ Prepare
  \/ QueryOk
  \/ QueryFail
  \/ ClassifyRows
  \/ PrintResult
  \/ MainExit

Next ==
  \/ MainNext
  \/ DriverError
  \/ DriverFinish

Spec == Init /\ [][Next]_vars

\* ------------------------------------------------------------ properties
Exited == pc = "exited"

\* the execute request the database answered with rows, if any
Answered == {i \in 1..Len(db) : db[i].op = "execute" /\ db[i].ok}
HasAnswer == Answered # {}
AnswerRows == db[CHOOSE i \in Answered : TRUE].rows

\* the error kinds spec section 7 lists, by the message of each
ListedFatal ==
  { "cannot determine current working directory",
    "config file not found",
    "failed to read config file",
    "failed to parse YAML config",
    "unsupported engine",
    "failed to read input file A",
    "failed to read input file B",
    "invalid JSON in file A",
    "invalid JSON in file B",
    "failed to connect to postgres",
    "prepare SQL failed",
    "SQL execution failed",
    "unsupported result type in first column; expected text or json" }

\* the errors the code raises beyond them
UnlistedFatal ==
  { "clap usage error",
    "missing first input file argument",
    "missing second input file argument" }

\* the run ended in clap's help: nothing was parsed, nothing failed
HelpExit == Exited /\ ~file1.set /\ ~err.some

\* the run ended inside Cli::parse(), in the help or in a usage error
ClapExit == Exited /\ ~file1.set /\ err \in {None, Some("clap usage error")}

\* C1 as stated, for the runs whose command line clap accepted: the exit status
\* is 0, 1 or 2; it is 2 exactly for a listed fatal error, and 0 or 1 only after
\* the query executed and its result was classified
C1_ExitStatusAsStated ==
  (Exited /\ ~ClapExit) =>
    /\ status.set /\ status.v \in {0, 1, 2}
    /\ status.v = 2 <=> (err.some /\ err.v \in ListedFatal)
    /\ status.v \in {0, 1} => (HasAnswer /\ result.set)

\* an error ends the run: nothing is classified or printed after it
ErrorIsFinal == err.some => (pc \in {"main", "exited"} /\ ~result.set /\ ~exit_code.set)

\* C1, amended: a run that ends exits with one status out of 0, 1, 2; the
\* status is 2 exactly when a fatal error occurred, one of the listed ones or a
\* command-line usage error or a missing input file argument; it is 0 or 1 only
\* after the query executed and its result was classified, or 0 when help was
\* asked for; no error is retried or recovered
C1_ExitStatus ==
  /\ status.set <=> Exited
  /\ ErrorIsFinal
  /\ Exited =>
       /\ status.v \in {0, 1, 2}
       /\ status.v = 2 <=> err.some
       /\ err.some => err.v \in ListedFatal \cup UnlistedFatal
       /\ status.v \in {0, 1} => ((HasAnswer /\ result.set) \/ HelpExit)

\* C1 witness: a run that ended with status 2 for a missing input file argument
C1_Witness ==
  Exited /\ status.v = 2 /\ err = Some("missing first input file argument")

IsJsonResult == result.set /\ result.v.kind = "Json"
IsTextResult == result.set /\ result.v.kind = "Text"

\* the number is zero: the integer 0, or the float 0.0
IsZeroNumber(n) ==
  IF n.kind = "Float" THEN n.mant = 0 ELSE n.v = 0

\* C2: for a Json outcome that is a number, the exit code is 0 if and only if
\* the number is zero; every other number, non-integers and integers beyond
\* i64 included, exits 1
C2_NumberPresence ==
  (Exited /\ IsJsonResult /\ result.v.v.t = "Number") =>
    status.v = (IF IsZeroNumber(result.v.v.n) THEN 0 ELSE 1)

\* the five values that mean no difference
EmptyJson == {JNull, JBool(FALSE), JString(<<>>), JArray(<<>>), JObject(<<>>)}

\* C3: for a Json outcome that is no number, the exit code is 0 exactly for
\* null, false, "", [] and {}, and 1 otherwise, whatever a container holds
C3_ShallowPresence ==
  (Exited /\ IsJsonResult /\ result.v.v.t # "Number") =>
    status.v = (IF result.v.v \in EmptyJson THEN 0 ELSE 1)

\* C3 witness: the run printed [[]] and exited 1
C3_Witness ==
  /\ Exited /\ IsJsonResult
  /\ result.v.v = JArray(<<JArray(<<>>)>>)
  /\ stdout = <<"[", "[", "]", "]">>
  /\ status.v = 1

\* C4: for a Text(s) outcome stdout is exactly s, and the exit code is 1 if and
\* only if s has a character that is not whitespace, else 0
C4_TextOutcome ==
  (Exited /\ IsTextResult) =>
    /\ stdout = result.v.s
    /\ status.v = (IF \E i \in 1..Len(result.v.s) : ~IsWhitespace(result.v.s[i])
                   THEN 1 ELSE 0)

\* C4 witness: a text of whitespace alone was printed as it is, and the run exited 0
C4_Witness ==
  /\ Exited /\ IsTextResult
  /\ result.v.s = <<" ", "\n">>
  /\ stdout = <<" ", "\n">>
  /\ status.v = 0

UnsupportedType == "unsupported result type in first column; expected text or json"

\* the column holds a string, or a JSON document
DecodesAsString(c) == c.ty = "text" /\ ~c.null
DecodesAsJson(c) == c.ty = "jsonb" /\ ~c.null

\* the outcome the ordered rules give for the first column of the first row
OutcomeOf(rs) ==
  IF rs = <<>> THEN Some(QNone)
  ELSE IF rs[1] = <<>> THEN None
  ELSE IF DecodesAsString(rs[1][1]) THEN Some(QText(rs[1][1].s))
  ELSE IF DecodesAsJson(rs[1][1]) THEN Some(QJson(rs[1][1].j))
  ELSE None

\* C5: once the rows are classified the outcome is Empty for no row, else Text
\* if the first column of the first row is a string, else Json if it is JSON,
\* else the run failed with the unsupported-type error; later rows and columns
\* change nothing
C5_ClassifierOrder ==
  (HasAnswer /\ pc \in {"map_result", "main", "exited"}) =>
    IF OutcomeOf(AnswerRows).some
    THEN result = Set(OutcomeOf(AnswerRows).v) /\ ~err.some
    ELSE ~result.set /\ err = Some(UnsupportedType)

\* C5 witness: two rows of two columns, the first column of the first row a
\* string, gave Text
C5_Witness ==
  /\ Exited /\ HasAnswer
  /\ Len(AnswerRows) = 2 /\ Len(AnswerRows[1]) = 2
  /\ AnswerRows[1][1] = TextCell(<<"a">>)
  /\ result = Set(QText(<<"a">>))
  /\ status.v = 1

\* C6: with an engine that is neither postgres nor pg no file is read and no
\* request reaches a database, and the run ends with the unsupported-engine
\* error and status 2
C6_UnsupportedEngine ==
  (cfg.set /\ cfg.v.engine \notin {"postgres", "pg"}) =>
    /\ db = <<>>
    /\ \A q \in Paths : ~fs[q].set
    /\ pc \in {"match_engine", "main", "exited"}
    /\ Exited => (err = Some("unsupported engine") /\ status.v = 2 /\ stdout = <<>>)

\* C6 witness: a run configured for mysql ended with status 2
C6_Witness ==
  /\ Exited /\ cfg.set /\ cfg.v.engine = "mysql"
  /\ err = Some("unsupported engine")
  /\ status.v = 2

AllWhitespace(text) == \A i \in 1..Len(text) : IsWhitespace(text[i])
IsNotWhitespace(c) == ~IsWhitespace(c)
StripWhitespace(text) == SelectSeq(text, IsNotWhitespace)

\* the parameter p is what the text of a file binds as: NULL for a blank text,
\* else the document the text spells
BindsAs(p, text) ==
  IF AllWhitespace(text) THEN p = None
  ELSE p.some /\ to_string(p.v) = StripWhitespace(text)

TextOf(file) == fs[file.v].v.text

\* C7: every execution binds parameter 1 to the document of file A and
\* parameter 2 to the document of file B: NULL for an empty or blank file, the
\* parsed JSON value otherwise, the literal null being a value
C7_ParamBinding ==
  \A i \in 1..Len(db) :
    db[i].op = "execute" =>
      /\ BindsAs(db[i].params[1], TextOf(file1))
      /\ BindsAs(db[i].params[2], TextOf(file2))

\* C7 witness: file A holds null, file B is blank, and the query ran with the
\* JSON null and NULL
C7_Witness ==
  /\ HasAnswer
  /\ file1.v # file2.v
  /\ TextOf(file1) = <<"n", "u", "l", "l">>
  /\ TextOf(file2) = <<" ", "\f", "\n">>
  /\ \E i \in Answered : db[i].params = <<Some(JNull), None>>

\* C8: a run whose query answered no row exits 0 and prints nothing
C8_EmptyResult ==
  (HasAnswer /\ AnswerRows = <<>>) =>
    /\ stdout = <<>>
    /\ Exited => status.v = 0

\* C8 witness: both files blank, no row, status 0
C8_Witness ==
  /\ Exited /\ HasAnswer /\ AnswerRows = <<>>
  /\ file1.v # file2.v
  /\ TextOf(file1) = <<>>
  /\ TextOf(file2) = <<" ", "\f", "\n">>
  /\ stdout = <<>>
  /\ status.v = 0

MalformedTexts == {t \in FileTexts : ~AllWhitespace(t) /\ ~from_str(t).ok}
Malformed(text) == text \in MalformedTexts

\* the first failure of input loading in the order read A, read B, parse A, parse B
FirstLoadFailure ==
  LET A == fs[file1.v].v
      B == fs[file2.v].v
  IN  IF ~A.ok THEN "failed to read input file A"
      ELSE IF ~B.ok THEN "failed to read input file B"
      ELSE IF Malformed(A.text) THEN "invalid JSON in file A"
      ELSE IF Malformed(B.text) THEN "invalid JSON in file B"
      ELSE "none"

LoadErrors ==
  { "failed to read input file A", "failed to read input file B",
    "invalid JSON in file A", "invalid JSON in file B" }

\* C10: a connection is attempted only after both files were read and both
\* documents built; a run that started loading and ended did so with the first
\* failure in the order read A, read B, parse A, parse B, if there is one, and
\* then with status 2, no database request and nothing printed
C10_LoadBeforeConnect ==
  /\ db # <<>> =>
       /\ fs[file1.v].set /\ fs[file2.v].set
       /\ FirstLoadFailure = "none"
  /\ (Exited /\ file1.set /\ fs[file1.v].set) =>
       /\ fs[file1.v].v.ok => fs[file2.v].set
       /\ IF FirstLoadFailure = "none"
          THEN ~(err.some /\ err.v \in LoadErrors)
          ELSE /\ err = Some(FirstLoadFailure)
               /\ status.v = 2
               /\ db = <<>>
               /\ stdout = <<>>

\* C10 witness: file A holds malformed JSON, file B is unreadable, and the run
\* ended reporting file B
C10_Witness ==
  /\ Exited /\ file1.set /\ fs[file1.v].set /\ fs[file2.v].set
  /\ fs[file1.v].v.ok /\ TextOf(file1) = <<"{">>
  /\ ~fs[file2.v].v.ok
  /\ err = Some("failed to read input file B")
  /\ status.v = 2 /\ db = <<>> /\ stdout = <<>>

====
